---- MODULE Spec2Model ----
(***************************************************************************)
(* DNA subsequence search with W forked worker processes (prog2.c with a   *)
(* named semaphore, prog2a.c with an unnamed process-shared semaphore).    *)
(* The orchestrator (parent main) creates the shared result, forks the     *)
(* workers, waits for them and prints the shared best.  Each worker scans  *)
(* the start positions worker_id, worker_id + num_procs, ... and merges    *)
(* its local best into the shared result under the semaphore.              *)
(*                                                                         *)
(* Positions and indices are 0-based as in the C code; a C array element   *)
(* a[i] is the TLA+ sequence element a[i + 1].                             *)
(*                                                                         *)
(* System calls that can fail (shm_open, ftruncate, mmap, sem_open,        *)
(* sem_init, fork, wait, sem_wait, sem_post) fail nondeterministically; a  *)
(* failed semaphore operation leaves the semaphore value unchanged.  In    *)
(* prog2a.c the parent may sem_destroy the semaphore while workers still   *)
(* use it; the later operations of those workers either work on the value *)
(* as before or fail, which the nondeterministic failure already covers.   *)
(***************************************************************************)
EXTENDS Integers, Sequences, FiniteSets, TLC

\* ---- bounds of the model ----
MaxLen == 3       \* longest subject sequence
MaxSub == 2       \* longest query (subsequence)
MaxProcs == 2     \* largest worker count
MaxMerges == 3    \* most merges applied in the merge test
MaxCap == 2       \* largest frame count of a process (prog3.c)
MaxRefs == 4      \* most lines read from the data file (prog3.c)
MaxQ == 3         \* largest queue size (prog4.c)
MaxCyl == 3       \* largest cylinder of the input (prog4.c)
MaxReqs == 4      \* most requests in the input file (prog4.c)

\* the symbols kept by read_and_filter_acgt, cut down to two of the four
Alphabet == {"A", "C"}

\* the two source variants of the program
Variants == {"prog2", "prog2a"}

VARIABLES
  variant,      \* which source file runs
  seq,          \* subject sequence (immutable after load)
  subseq,       \* query sequence (immutable after load)
  num_procs,    \* worker count W, validated > 0
  opc,          \* position of the parent in main
  i,            \* fork loop index of the parent
  started,      \* number of successful forks
  k,            \* wait loop index of the parent (both wait loops)
  shm,          \* content of the shared region: best_position, best_count
  sem,          \* value of the semaphore
  wk,           \* the worker processes
  matchesAt,    \* matches computed for each scanned position, -1 before
  out,          \* the printed result triple, <<>> when nothing was printed
  exit_status,  \* return value of the parent's main, -1 while running
  torn,         \* cleanup_parent has run
  faults,       \* which parent-side calls have failed so far
  res,          \* the resources of the parent: buffers, shared region,
                \* semaphore, and the lifecycle errors made so far
  mg,           \* the merge applied to candidates on its own: start state,
                \* two candidates, current state, candidates applied so far
  lru,          \* prog3.c: the LRU cache of each process (q, size, cap)
  hits,         \* prog3.c: hits of each process
  refs,         \* prog3.c: references of each process
  recent,       \* prog3.c: the distinct pages each process has referenced,
                \* least recently referenced first
  nread,        \* prog3.c: number of input lines read
  alg,          \* prog4.c: the algorithm of argv[1]
  qsize,        \* prog4.c: the queue size of argv[2]
  reqs,         \* prog4.c: the cylinders of the input file, in order
  nin,          \* prog4.c: how many of them fscanf has read
  queue,        \* prog4.c: the qsize slots of the queue (cyl, wait, and
                \* the arrival number of the request held)
  qcount,       \* prog4.c: number of queued requests
  current,      \* prog4.c: cylinder of the disk arm
  processed,    \* prog4.c: number of completed requests
  total,        \* prog4.c: sum of the finished waits, in 1/100 ms
  dpc,          \* prog4.c: position in main
  served,       \* prog4.c: arrival numbers of the requests completed, in
                \* order of completion
  wslot         \* prog4.c: index of the slot last written by an admission

vars == <<variant, seq, subseq, num_procs, opc, i, started, k, shm, sem, wk,
          matchesAt, out, exit_status, torn, faults, res,
          mg, lru, hits, refs, recent, nread,
          alg, qsize, reqs, nin, queue, qcount, current, processed, total,
          dpc, served, wslot>>

\* the state of prog4.c
disk == <<alg, qsize, reqs, nin, queue, qcount, current, processed, total,
          dpc, served, wslot>>

\* what the DNA search never touches
other == <<mg, lru, hits, refs, recent, nread, disk>>

inputs == <<variant, seq, subseq, num_procs>>

\* ---------------------------------------------------------------------
\* pure helpers
\* ---------------------------------------------------------------------

SeqsUpTo(n) == UNION {[1..m -> Alphabet] : m \in 0..n}

seq_len == Len(seq)
subseq_len == Len(subseq)

Workers == 0..(num_procs - 1)

\* faulty comparison: every in-bound index counts as a match
SymEqAlways(s, q, sidx, j) == TRUE

\* seq[sidx] == subseq[j] for an index inside the subject
SymEq(s, q, sidx, j) == s[sidx + 1] = q[j + 1]

\* prog2.c inner loop: count on an in-bound equal symbol, break at the
\* subject boundary, go on otherwise
RECURSIVE MatchLoop2(_, _, _, _, _)
MatchLoop2(s, q, pos, j, matches) ==
  IF j >= Len(q) THEN matches
  ELSE LET sidx == pos + j IN
       IF sidx < Len(s) /\ SymEq(s, q, sidx, j)
         THEN MatchLoop2(s, q, pos, j + 1, matches + 1)
       ELSE IF sidx >= Len(s) THEN matches
       ELSE MatchLoop2(s, q, pos, j + 1, matches)

\* prog2a.c inner loop: break at the subject boundary first, then compare
RECURSIVE MatchLoop2a(_, _, _, _, _)
MatchLoop2a(s, q, pos, j, matches) ==
  IF j >= Len(q) THEN matches
  ELSE LET sidx == pos + j IN
       IF sidx >= Len(s) THEN matches
       ELSE IF SymEq(s, q, sidx, j)
         THEN MatchLoop2a(s, q, pos, j + 1, matches + 1)
       ELSE MatchLoop2a(s, q, pos, j + 1, matches)

\* the match count of one start position, as the running variant computes it
MatchCount(v, s, q, pos) ==
  IF v = "prog2" THEN MatchLoop2(s, q, pos, 0, 0)
  ELSE MatchLoop2a(s, q, pos, 0, 0)

\* faulty start: the first position is one too high
FirstPosShifted(worker_id) == worker_id + 1

\* first position of a worker: pos = (size_t)worker_id
FirstPos(worker_id) == worker_id

\* faulty increment: the stride is ignored
NextPosByOne(pos, stride) == pos + 1

\* loop increment of the position loop: pos += (size_t)num_procs
NextPos(pos, stride) == pos + stride

\* faulty test: an equal score replaces the local best too
LocalBetterOrEqual(matches, best_cnt) == matches >= best_cnt

\* "if (matches > best_cnt)": the local best is replaced on a strictly
\* higher score only
LocalBetter(matches, best_cnt) == matches > best_cnt

\* one iteration of the position loop: the local best after position pos
LocalStep(v, s, q, pos, best) ==
  LET matches == MatchCount(v, s, q, pos) IN
  IF LocalBetter(matches, best.best_cnt)
    THEN [best_pos |-> pos, best_cnt |-> matches]
    ELSE best

\* the whole position loop from pos on with the given stride
RECURSIVE ScanFrom(_, _, _, _, _, _)
ScanFrom(v, s, q, pos, stride, best) ==
  IF pos < Len(s)
    THEN ScanFrom(v, s, q, NextPos(pos, stride), stride,
                  LocalStep(v, s, q, pos, best))
    ELSE best

\* faulty decision: a worker merges even when it scanned nothing
NeedsMergeAlways(best_cnt) == TRUE

\* faulty decision: a local best without any match is not merged
NeedsMergePositive(best_cnt) == best_cnt > 0

\* "if (best_cnt >= 0)": a worker merges only when it scanned a position
NeedsMerge(best_cnt) == best_cnt >= 0

\* faulty merge predicate: the tie-break on the position is missing
ShouldReplaceNoTie(best_cnt, best_pos, cur) == best_cnt > cur.best_count

\* faulty merge predicate: an equal count always replaces
ShouldReplaceOnTie(best_cnt, best_pos, cur) == best_cnt >= cur.best_count

\* the merge predicate evaluated inside the critical section
ShouldReplace(best_cnt, best_pos, cur) ==
  \/ best_cnt > cur.best_count
  \/ (best_cnt = cur.best_count /\ best_pos < cur.best_position)

\* the body of the critical section: the shared result after the merge of
\* the local best (best_pos, best_cnt)
Merge(cur, best_pos, best_cnt) ==
  IF ShouldReplace(best_cnt, best_pos, cur)
    THEN [best_position |-> best_pos, best_count |-> best_cnt]
    ELSE cur

\* faulty semaphore: sem_wait never blocks
SemAvailableAlways(value) == TRUE

\* sem_wait can take the semaphore only when its value is positive
SemAvailable(value) == value > 0

\* faulty exit code: a failed semaphore call is not reported
RcAfterIgnored(rc, ok) == rc

\* exit code of a worker after a semaphore call: rc stays, or becomes 1
RcAfter(rc, ok) == IF ok THEN rc ELSE 1

\* faulty status test: WIFEXITED is not looked at
ChildFailedCodeOnly(wstatus) == wstatus.code # 0

\* "!WIFEXITED(wstatus) || WEXITSTATUS(wstatus) != 0"
ChildFailed(wstatus) == ~wstatus.exited \/ wstatus.code # 0

\* faulty initialisation: the zero-filled region is left as it is
ZeroResults == [best_position |-> 0, best_count |-> 0]

\* "best_position = -1; best_count = -1;": the sentinel
InitialResults == [best_position |-> -1, best_count |-> -1]

\* faulty guard: prog2.c rejects too
TooManyProcsBoth(v, n, len) == n > len

\* faulty guard: nothing is rejected
TooManyProcsNever(v, n, len) == FALSE

\* the guard of prog2a.c: more workers than start positions is rejected
TooManyProcs(v, n, len) == v = "prog2a" /\ n > len

\* ---------------------------------------------------------------------
\* resources of the parent
\* ---------------------------------------------------------------------

\* after both files are read: the two buffers are allocated, nothing else
\* exists; seq_ptr / subseq_ptr tell whether the pointer is non-NULL
ResLoaded ==
  [seq_ptr |-> TRUE, seq_buf |-> "live",
   subseq_ptr |-> TRUE, subseq_buf |-> "live",
   shm_name |-> FALSE, shm_fd |-> -1, shm_obj |-> FALSE,
   g_results |-> "NULL",
   sem_name |-> FALSE, g_sem |-> "NULL", sem_obj |-> FALSE,
   sem_live |-> FALSE,
   made |-> {}, errors |-> {}]

\* free(seq): the pointer keeps its value
FreeSeq(r) ==
  [r EXCEPT !.seq_buf = "freed",
            !.errors = IF r.seq_buf = "freed"
                         THEN @ \cup {"double free of seq"} ELSE @]

\* free(subseq)
FreeSubseq(r) ==
  [r EXCEPT !.subseq_buf = "freed",
            !.errors = IF r.subseq_buf = "freed"
                         THEN @ \cup {"double free of subseq"} ELSE @]

\* "free(seq); free(subseq);" written out in main
FreeBoth(r) == FreeSubseq(FreeSeq(r))

\* sem_destroy(&g_results->lock)
SemDestroy(r) ==
  IF r.sem_live
    THEN [r EXCEPT !.sem_live = FALSE]
    ELSE [r EXCEPT !.errors =
                     @ \cup {"sem_destroy of a semaphore never initialised"}]

\* cleanup_parent: "if (seq) { free(seq); seq = NULL; }" and the same for
\* subseq
CleanSeqs(r) ==
  LET r1 == IF r.seq_ptr THEN [FreeSeq(r) EXCEPT !.seq_ptr = FALSE] ELSE r
  IN IF r1.subseq_ptr THEN [FreeSubseq(r1) EXCEPT !.subseq_ptr = FALSE]
     ELSE r1

\* cleanup_parent: "if (g_results && g_results != MAP_FAILED)": prog2a.c
\* destroys the semaphore first, both unmap the region
CleanMap(v, r) ==
  IF r.g_results = "mapped"
    THEN [(IF v = "prog2a" THEN SemDestroy(r) ELSE r)
            EXCEPT !.g_results = "NULL"]
    ELSE r

\* cleanup_parent: "if (shm_fd != -1) { close(shm_fd); shm_fd = -1; }"
CleanFd(r) == IF r.shm_fd # -1 THEN [r EXCEPT !.shm_fd = -1] ELSE r

\* cleanup_parent: "if (shm_name[0]) { shm_unlink(shm_name); ... }"
CleanShmName(r) ==
  IF r.shm_name THEN [r EXCEPT !.shm_obj = FALSE, !.shm_name = FALSE] ELSE r

\* cleanup_parent of prog2.c: sem_close of an open handle, sem_unlink of
\* the name
CleanSem(r) ==
  LET r1 == IF r.g_sem = "open" THEN [r EXCEPT !.g_sem = "NULL"] ELSE r
  IN IF r1.sem_name THEN [r1 EXCEPT !.sem_obj = FALSE, !.sem_name = FALSE]
     ELSE r1

\* cleanup_parent as a whole, in the order of each variant
CleanupParent(v, r) ==
  IF v = "prog2"
    THEN CleanSem(CleanShmName(CleanFd(CleanMap(v, CleanSeqs(r)))))
    ELSE CleanFd(CleanShmName(CleanMap(v, CleanSeqs(r))))

\* ---------------------------------------------------------------------
\* worker records
\* ---------------------------------------------------------------------

NoStatus == [exited |-> FALSE, code |-> 0]

Unborn ==
  [pc |-> "unborn", pos |-> 0, best_pos |-> -1, best_cnt |-> -1, rc |-> 0,
   wstatus |-> NoStatus, reaped |-> FALSE,
   scanned |-> {}, waits |-> 0, acq |-> "none", rel |-> "none",
   merges |-> 0, touches |-> 0, holds |-> FALSE, openfail |-> FALSE]

\* _exit(code)
Exit(w, code) ==
  [w EXCEPT !.pc = "terminated", !.wstatus = [exited |-> TRUE, code |-> code]]

Live(w) == wk[w].pc \notin {"unborn", "terminated"}
Terminated(w) == wk[w].pc = "terminated"

\* ---------------------------------------------------------------------
\* initial state: both files read and filtered, num_procs parsed and > 0
\* ---------------------------------------------------------------------

\* the disk simulation is not running
DiskIdle ==
  /\ alg = "none"
  /\ qsize = 0
  /\ reqs = <<>>
  /\ nin = 0
  /\ queue = <<>>
  /\ qcount = 0
  /\ current = 0
  /\ processed = 0
  /\ total = 0
  /\ dpc = "idle"
  /\ served = <<>>
  /\ wslot = -1

\* the merge test and the two simulations are not running
OtherIdle ==
  /\ mg = <<>>
  /\ lru = <<>>
  /\ hits = <<>>
  /\ refs = <<>>
  /\ recent = <<>>
  /\ nread = 0
  /\ DiskIdle

\* the state of main once the inputs are loaded
Loaded ==
  /\ opc = "loaded"
  /\ i = 0
  /\ started = 0
  /\ k = 0
  /\ shm = [best_position |-> 0, best_count |-> 0]
  /\ sem = 0
  /\ wk = [w \in 0..(num_procs - 1) |-> Unborn]
  /\ matchesAt = [p \in 0..(Len(seq) - 1) |-> -1]
  /\ out = <<>>
  /\ exit_status = -1
  /\ torn = FALSE
  /\ faults = {}
  /\ res = ResLoaded
  /\ OtherIdle

Init ==
  /\ variant \in Variants
  /\ seq \in SeqsUpTo(MaxLen)
  /\ subseq \in SeqsUpTo(MaxSub)
  /\ num_procs \in 1..MaxProcs
  /\ Loaded

\* ---------------------------------------------------------------------
\* parent (orchestrator)
\* ---------------------------------------------------------------------

\* cleanup_parent(); return 1; with the resources r at that point
FailFrom(r, fault) ==
  /\ torn' = TRUE
  /\ opc' = "failed"
  /\ exit_status' = 1
  /\ faults' = faults \cup {fault}
  /\ res' = CleanupParent(variant, r)

\* cleanup_parent(); return 1;
FailWith(fault) == FailFrom(res, fault)

\* "if (subseq_len == 0 || seq_len == 0)": empty input ends the run
CheckEmpty ==
  /\ opc = "loaded"
  /\ IF subseq_len = 0 \/ seq_len = 0
       THEN /\ opc' = "empty"
            /\ exit_status' = 1
            /\ res' = FreeBoth(res)
       ELSE /\ opc' = "start"
            /\ UNCHANGED <<exit_status, res>>
  /\ UNCHANGED <<other, inputs, i, started, k, shm, sem, wk, matchesAt, out, torn,
                 faults>>

\* prog2a.c: exit before anything is created when num_procs > seq_len
NumProcsGuard ==
  /\ opc = "start"
  /\ IF TooManyProcs(variant, num_procs, seq_len)
       THEN /\ opc' = "rejected"
            /\ exit_status' = 1
            /\ res' = FreeBoth(res)
       ELSE /\ opc' = "shm_open"
            /\ UNCHANGED <<exit_status, res>>
  /\ UNCHANGED <<other, inputs, i, started, k, shm, sem, wk, matchesAt, out, torn,
                 faults>>

\* the names are made, then shm_open, ftruncate, mmap: the shared region
\* exists, zero-filled; prog2a.c closes the descriptor after mmap.  Each
\* of the three calls can fail: after a failed shm_open prog2.c frees the
\* buffers and returns, prog2a.c frees them and then runs cleanup_parent;
\* after a failed ftruncate or mmap both run cleanup_parent.
ShmSetup ==
  /\ opc = "shm_open"
  /\ LET named == [res EXCEPT !.shm_name = TRUE,
                              !.sem_name = (variant = "prog2")]
         opened == [named EXCEPT !.shm_fd = 3, !.shm_obj = TRUE,
                                 !.made = @ \cup {"shm"}]
     IN \/ /\ res' = [opened EXCEPT
                        !.g_results = "mapped",
                        !.shm_fd = IF variant = "prog2a" THEN -1 ELSE @]
           /\ opc' = "init_results"
           /\ UNCHANGED <<exit_status, torn, faults>>
        \/ IF variant = "prog2"
             THEN /\ res' = FreeBoth(named)
                  /\ opc' = "failed"
                  /\ exit_status' = 1
                  /\ faults' = faults \cup {"shm"}
                  /\ UNCHANGED torn
             ELSE FailFrom(FreeBoth(named), "shm")
        \/ FailFrom(opened, "shm")
        \/ FailFrom([opened EXCEPT !.g_results = "MAP_FAILED"], "shm")
  /\ UNCHANGED <<other, inputs, i, started, k, shm, sem, wk, matchesAt, out>>

\* best_position = -1; best_count = -1; then sem_open / sem_init with value 1
InitResults ==
  /\ opc = "init_results"
  /\ shm' = InitialResults
  /\ \/ /\ sem' = 1
        /\ res' = IF variant = "prog2"
                    THEN [res EXCEPT !.g_sem = "open", !.sem_obj = TRUE,
                                     !.made = @ \cup {"sem"}]
                    ELSE [res EXCEPT !.sem_live = TRUE,
                                     !.made = @ \cup {"sem"}]
        /\ opc' = "fork"
        /\ UNCHANGED <<exit_status, torn, faults>>
     \/ /\ FailFrom(IF variant = "prog2"
                       THEN [res EXCEPT !.g_sem = "SEM_FAILED"] ELSE res,
                     "sem")
        /\ UNCHANGED sem
  /\ UNCHANGED <<other, inputs, i, started, k, wk, matchesAt, out>>

\* one iteration of the fork loop
Fork ==
  /\ opc = "fork"
  /\ i < num_procs
  /\ \/ /\ wk' = [wk EXCEPT ![i] =
                    [@ EXCEPT !.pc = IF variant = "prog2" THEN "child_open"
                                     ELSE "scan",
                              !.pos = FirstPos(i)]]
        /\ started' = started + 1
        /\ i' = i + 1
        /\ opc' = IF i + 1 < num_procs THEN "fork" ELSE "wait"
        /\ UNCHANGED <<exit_status, torn, faults, res>>
     \/ /\ IF started = 0
             THEN FailWith("fork")
             ELSE /\ opc' = "fork_failed"
                  /\ faults' = faults \cup {"fork"}
                  /\ UNCHANGED <<exit_status, torn, res>>
        /\ UNCHANGED <<wk, started, i>>
  /\ UNCHANGED <<other, inputs, k, shm, sem, matchesAt, out>>

\* after a failed fork: for (k < started) (void)wait(NULL); then clean up
ForkFailedWait ==
  /\ opc = "fork_failed"
  /\ k < started
  /\ \/ \E w \in Workers :
          /\ Terminated(w) /\ ~wk[w].reaped
          /\ wk' = [wk EXCEPT ![w].reaped = TRUE]
     \/ UNCHANGED wk        \* wait(NULL) returned -1, ignored
  /\ k' = k + 1
  /\ IF k + 1 < started
       THEN UNCHANGED <<opc, exit_status, torn, faults, res>>
       ELSE FailWith("fork")
  /\ UNCHANGED <<other, inputs, i, started, shm, sem, matchesAt, out>>

\* one iteration of the wait loop
WaitChild ==
  /\ opc = "wait"
  /\ k < started
  /\ \/ \E w \in Workers :
          /\ Terminated(w) /\ ~wk[w].reaped
          /\ wk' = [wk EXCEPT ![w].reaped = TRUE]
          /\ IF ChildFailed(wk[w].wstatus)
               THEN /\ FailWith("worker")
                    /\ UNCHANGED k
               ELSE /\ k' = k + 1
                    /\ opc' = IF k + 1 < started THEN "wait" ELSE "output"
                    /\ UNCHANGED <<exit_status, torn, faults, res>>
     \/ /\ FailWith("wait")
        /\ UNCHANGED <<wk, k>>
  /\ UNCHANGED <<other, inputs, i, started, shm, sem, matchesAt, out>>

\* the three printf lines, cleanup_parent, return 0
Output ==
  /\ opc = "output"
  /\ out' = <<num_procs, shm.best_position, shm.best_count>>
  /\ torn' = TRUE
  /\ res' = CleanupParent(variant, res)
  /\ opc' = "done"
  /\ exit_status' = 0
  /\ UNCHANGED <<other, inputs, i, started, k, shm, sem, wk, matchesAt, faults>>

\* ---------------------------------------------------------------------
\* workers (children)
\* ---------------------------------------------------------------------

\* prog2.c: the child opens the shared memory and the semaphore by name;
\* the names are gone once the parent has cleaned up
ChildOpen(w) ==
  /\ wk[w].pc = "child_open"
  /\ \/ /\ ~torn
        /\ wk' = [wk EXCEPT ![w].pc = "scan"]
     \/ wk' = [wk EXCEPT ![w] = Exit([@ EXCEPT !.openfail = TRUE], 1)]
  /\ UNCHANGED <<other, inputs, opc, i, started, k, shm, sem, matchesAt, out,
                 exit_status, torn, faults, res>>

\* one iteration of the position loop, or the loop exit with the decision
\* whether to merge; a worker that does not merge ends with _exit(rc)
ScanStep(w) ==
  /\ wk[w].pc = "scan"
  /\ LET me == wk[w] IN
     IF me.pos < seq_len
       THEN LET best == LocalStep(variant, seq, subseq, me.pos,
                                  [best_pos |-> me.best_pos,
                                   best_cnt |-> me.best_cnt])
            IN /\ wk' = [wk EXCEPT ![w] =
                     [@ EXCEPT !.best_cnt = best.best_cnt,
                               !.best_pos = best.best_pos,
                               !.scanned = @ \cup {me.pos},
                               !.pos = NextPos(me.pos, num_procs)]]
               /\ matchesAt' = [matchesAt EXCEPT ![me.pos] =
                                  MatchCount(variant, seq, subseq, me.pos)]
       ELSE /\ wk' = [wk EXCEPT ![w] =
                  IF NeedsMerge(me.best_cnt)
                    THEN [@ EXCEPT !.pc = "sem_wait"]
                    ELSE Exit(@, me.rc)]
            /\ UNCHANGED matchesAt
  /\ UNCHANGED <<other, inputs, opc, i, started, k, shm, sem, out, exit_status,
                 torn, faults, res>>

\* sem_wait: takes the semaphore, blocks while it is 0, or fails
SemWait(w) ==
  /\ wk[w].pc = "sem_wait"
  /\ \/ /\ SemAvailable(sem)
        /\ sem' = sem - 1
        /\ wk' = [wk EXCEPT ![w] =
                    [@ EXCEPT !.pc = "cs", !.waits = @ + 1, !.acq = "ok",
                              !.holds = TRUE]]
     \/ /\ wk' = [wk EXCEPT ![w] =
                    Exit([@ EXCEPT !.waits = @ + 1, !.acq = "fail",
                                   !.rc = RcAfter(@, FALSE)],
                         RcAfter(wk[w].rc, FALSE))]
        /\ UNCHANGED sem
  /\ UNCHANGED <<other, inputs, opc, i, started, k, shm, matchesAt, out,
                 exit_status, torn, faults, res>>

\* the compare-and-assign inside the critical section
Update(w) ==
  /\ wk[w].pc = "cs"
  /\ LET me == wk[w] IN
     /\ shm' = Merge(shm, me.best_pos, me.best_cnt)
     /\ wk' = [wk EXCEPT ![w] =
                 [@ EXCEPT !.pc = "sem_post", !.merges = @ + 1,
                           !.touches = @ + 1]]
  /\ UNCHANGED <<other, inputs, opc, i, started, k, sem, matchesAt, out,
                 exit_status, torn, faults, res>>

\* sem_post, then the worker ends with _exit
SemPost(w) ==
  /\ wk[w].pc = "sem_post"
  /\ \/ /\ sem' = sem + 1
        /\ wk' = [wk EXCEPT ![w] =
                    Exit([@ EXCEPT !.rel = "ok", !.holds = FALSE,
                                   !.rc = RcAfter(@, TRUE)],
                         RcAfter(wk[w].rc, TRUE))]
     \/ /\ wk' = [wk EXCEPT ![w] =
                    Exit([@ EXCEPT !.rel = "fail",
                                   !.rc = RcAfter(@, FALSE)],
                         RcAfter(wk[w].rc, FALSE))]
        /\ UNCHANGED sem
  /\ UNCHANGED <<other, inputs, opc, i, started, k, shm, matchesAt, out,
                 exit_status, torn, faults, res>>

\* a signal ends a running worker: WIFEXITED is false
Kill(w) ==
  /\ Live(w)
  /\ wk' = [wk EXCEPT ![w] = [@ EXCEPT !.pc = "terminated",
                                        !.wstatus = [exited |-> FALSE,
                                                     code |-> 0]]]
  /\ UNCHANGED <<other, inputs, opc, i, started, k, shm, sem, matchesAt, out,
                 exit_status, torn, faults, res>>

WorkerStep ==
  \E w \in Workers :
    ChildOpen(w) \/ ScanStep(w) \/ SemWait(w) \/ Update(w) \/ SemPost(w)

ParentStep ==
  \/ CheckEmpty
  \/ NumProcsGuard
  \/ ShmSetup
  \/ InitResults
  \/ Fork
  \/ ForkFailedWait
  \/ WaitChild
  \/ Output

Next == ParentStep \/ WorkerStep

Spec == Init /\ [][Next]_vars

\* the same program when signals may end workers
NextSig == Next \/ (\E w \in Workers : Kill(w))

SpecSig == Init /\ [][NextSig]_vars

\* one fixed run: ./prog2 with the subject ACGTACGT, the query ACGT and two
\* processes (argv[1..3], prog2.c 61-84)
InitScenario ==
  /\ variant \in Variants
  /\ seq = <<"A", "C", "G", "T", "A", "C", "G", "T">>
  /\ subseq = <<"A", "C", "G", "T">>
  /\ num_procs = 2
  /\ Loaded

SpecScenario == InitScenario /\ [][Next]_vars

\* ---------------------------------------------------------------------
\* the search under fair scheduling
\* ---------------------------------------------------------------------

\* runs with up to one worker more than in Init, a subject of one repeated
\* symbol and a query of that symbol
InitLive ==
  /\ variant \in Variants
  /\ seq \in {[j \in 1..n |-> "A"] : n \in 1..MaxLen}
  /\ subseq = <<"A">>
  /\ num_procs \in 1..(MaxProcs + 1)
  /\ Loaded

\* what the operating system guarantees: the parent and every child keep
\* running; a sem_wait returns once the semaphore stays available; a wait
\* returns once a child has ended.  No call is ever bound to fail.
Fairness ==
  /\ WF_vars(CheckEmpty \/ NumProcsGuard \/ ShmSetup \/ InitResults
               \/ Fork \/ Output)
  /\ WF_vars(WaitChild /\ wk' # wk)
  /\ WF_vars(ForkFailedWait /\ wk' # wk)
  /\ \A w \in 0..MaxProcs :
       /\ WF_vars(w \in Workers /\
                  (ChildOpen(w) \/ ScanStep(w) \/ Update(w) \/ SemPost(w)))
       /\ WF_vars(w \in Workers /\ SemWait(w) /\ sem' # sem)

SpecLive == InitLive /\ [][Next]_vars /\ Fairness

\* ---------------------------------------------------------------------
\* the merge of the critical section on its own
\* ---------------------------------------------------------------------

\* the DNA search is not running
SearchIdle ==
  /\ variant = "prog2"
  /\ seq = <<>>
  /\ subseq = <<>>
  /\ num_procs = 0
  /\ opc = "idle"
  /\ i = 0
  /\ started = 0
  /\ k = 0
  /\ shm = [best_position |-> 0, best_count |-> 0]
  /\ sem = 0
  /\ wk = <<>>
  /\ matchesAt = <<>>
  /\ out = <<>>
  /\ exit_status = -1
  /\ torn = FALSE
  /\ faults = {}
  /\ res = ResLoaded

\* what the merge test never touches
search == <<inputs, opc, i, started, k, shm, sem, wk, matchesAt, out,
            exit_status, torn, faults, res>>

\* the local bests a worker can bring to the merge: a position of the
\* subject and a count of matching symbols
Candidates == [best_pos : 0..(MaxLen - 1), best_cnt : 0..MaxSub]

\* the values the shared result can have when a worker enters the critical
\* section: the initial -1/-1 or an earlier candidate
SharedStates ==
  {InitialResults} \cup
  {[best_position |-> c.best_pos, best_count |-> c.best_cnt] :
     c \in Candidates}

\* a start value of the shared result and two candidates
InitMerge ==
  /\ mg \in [s0 : SharedStates, a : Candidates, b : Candidates,
             cur : SharedStates, applied : {<<>>}]
  /\ mg.cur = mg.s0
  /\ lru = <<>> /\ hits = <<>> /\ refs = <<>> /\ recent = <<>> /\ nread = 0
  /\ DiskIdle
  /\ SearchIdle

\* one worker runs the critical section with candidate a or candidate b
MergeApply ==
  /\ Len(mg.applied) < MaxMerges
  /\ \E c \in {"a", "b"} :
       LET cand == IF c = "a" THEN mg.a ELSE mg.b IN
       mg' = [mg EXCEPT !.cur = Merge(@, cand.best_pos, cand.best_cnt),
                        !.applied = Append(@, c)]
  /\ UNCHANGED <<search, lru, hits, refs, recent, nread, disk>>

SpecMerge == InitMerge /\ [][MergeApply]_vars

\* ---------------------------------------------------------------------
\* prog3.c: four processes, each with its own LRU cache
\* ---------------------------------------------------------------------

\* #define PROCS 4
PROCS == 4

\* the page numbers of the input: one more than the largest frame count,
\* so that a full cache can be referenced with a page it does not hold
Pages == 0..MaxCap

\* the frame counts of the command line (argv[2..5], all non-negative):
\* processes 1 and 2 with any count, process 3 with none, process 4 with
\* the largest count
FrameCounts ==
  {[p \in 0..(PROCS - 1) |->
      IF p = 0 THEN c0 ELSE IF p = 1 THEN c1 ELSE IF p = 2 THEN 0 ELSE MaxCap] :
     c0 \in 0..MaxCap, c1 \in 0..MaxCap}

\* a cache as main builds it: cap frames (not yet written, shown as -1),
\* size 0
EmptyCache(cap) ==
  [q |-> [j \in 0..(cap - 1) |-> -1], size |-> 0, cap |-> cap]

\* faulty touch: a hit leaves the order alone (first in, first out)
lru_touch_none(l, page, idx) == l

\* lru_touch: q[idx+1..size-1] move one place down, page goes to the end
lru_touch(l, page, idx) ==
  [l EXCEPT !.q = [j \in DOMAIN l.q |->
                     IF j >= idx /\ j < l.size - 1 THEN l.q[j + 1]
                     ELSE IF j = l.size - 1 THEN page
                     ELSE l.q[j]]]

\* lru_insert: nothing with no frames; appended while there is room;
\* otherwise q[0] is dropped, the rest moves down and page goes to the end
lru_insert(l, page) ==
  IF l.cap <= 0 THEN l
  ELSE IF l.size < l.cap
    THEN [l EXCEPT !.q[l.size] = page, !.size = @ + 1]
    ELSE [l EXCEPT !.q = [j \in DOMAIN l.q |->
                            IF j < l.cap - 1 THEN l.q[j + 1] ELSE page]]

\* faulty access: no search, every reference is inserted as a miss
lru_access_blind(l, page) == [l |-> lru_insert(l, page), ret |-> 0]

\* lru_access: linear search from index 0; the cache afterwards and the
\* value returned (1 hit, 0 miss)
lru_access(l, page) ==
  LET found == {j \in 0..(l.size - 1) : l.q[j] = page} IN
  IF found # {}
    THEN [l |-> lru_touch(l, page,
                          CHOOSE j \in found : \A j2 \in found : j <= j2),
          ret |-> 1]
    ELSE [l |-> lru_insert(l, page), ret |-> 0]

\* the distinct pages referenced so far, least recently referenced first,
\* after one more reference to page
Referenced(r, page) ==
  Append(SelectSeq(r, LAMBDA x : x # page), page)

InitLru ==
  /\ lru \in {[p \in 0..(PROCS - 1) |-> EmptyCache(caps[p])] :
               caps \in FrameCounts}
  /\ hits = [p \in 0..(PROCS - 1) |-> 0]
  /\ refs = [p \in 0..(PROCS - 1) |-> 0]
  /\ recent = [p \in 0..(PROCS - 1) |-> <<>>]
  /\ nread = 0
  /\ mg = <<>>
  /\ DiskIdle
  /\ SearchIdle

\* one pass of the read loop: a line "<proc> <page>"; a line whose proc is
\* not 1..PROCS is ignored, as are blank, comment and unparsable lines
ReadLine ==
  /\ nread < MaxRefs
  /\ nread' = nread + 1
  /\ \E proc \in 0..(PROCS + 1), page \in Pages :
       IF proc < 1 \/ proc > PROCS
         THEN UNCHANGED <<lru, hits, refs, recent>>
         ELSE LET idx == proc - 1
                  acc == lru_access(lru[idx], page)
              IN /\ refs' = [refs EXCEPT ![idx] = @ + 1]
                 /\ lru' = [lru EXCEPT ![idx] = acc.l]
                 /\ hits' = [hits EXCEPT ![idx] =
                               IF acc.ret # 0 THEN @ + 1 ELSE @]
                 /\ recent' = [recent EXCEPT ![idx] = Referenced(@, page)]
  /\ UNCHANGED <<search, mg, disk>>

SpecLru == InitLru /\ [][ReadLine]_vars

\* ---------------------------------------------------------------------
\* prog4.c: disk arm scheduling over a fixed-size queue
\* ---------------------------------------------------------------------

\* the costs of the assignment in 1/100 ms: #define START_STOP 2.0,
\* DIST_COST 0.15, LATENCY 4.2
START_STOP == 200
DIST_COST == 15
LATENCY == 420

\* the cylinders of the input file: a small part of 0..MAX_CYLS-1
Cyls == 0..MaxCyl

\* the input files: up to MaxReqs cylinders (whatever follows the last
\* number fscanf can convert is never read)
Streams == UNION {[1..n -> Cyls] : n \in 0..MaxReqs}

\* the algorithms parse_algorithm accepts
Algs == {"FIFO", "SSTF", "CSCAN"}

abs(x) == IF x < 0 THEN -x ELSE x

\* seek_time_ms: latency only when the arm stays, else start/stop, distance
\* and latency
seek_time_ms(from, to) ==
  IF from = to THEN LATENCY
  ELSE START_STOP + abs(to - from) * DIST_COST + LATENCY

\* faulty FIFO: the newest request is taken
pick_lifo(q, count, cur) == count - 1

\* pick_fifo: the first slot
pick_fifo(q, count, cur) == 0

\* the loop of pick_sstf from index i2 on, with idx and best so far
RECURSIVE sstf_loop(_, _, _, _, _, _)
sstf_loop(q, count, cur, i2, idx, best) ==
  IF i2 >= count THEN idx
  ELSE LET d == abs(q[i2].cyl - cur) IN
       IF d < best
         THEN sstf_loop(q, count, cur, i2 + 1, i2, d)
         ELSE sstf_loop(q, count, cur, i2 + 1, idx, best)

\* faulty loop of pick_sstf: an equal distance replaces the choice
RECURSIVE sstf_loop_last(_, _, _, _, _, _)
sstf_loop_last(q, count, cur, i2, idx, best) ==
  IF i2 >= count THEN idx
  ELSE LET d == abs(q[i2].cyl - cur) IN
       IF d <= best
         THEN sstf_loop_last(q, count, cur, i2 + 1, i2, d)
         ELSE sstf_loop_last(q, count, cur, i2 + 1, idx, best)

\* faulty pick_sstf: the last of the nearest requests
pick_sstf_last(q, count, cur) ==
  sstf_loop_last(q, count, cur, 1, 0, abs(q[0].cyl - cur))

\* pick_sstf: idx = 0, best = |q[0].cyl - cur|, then the loop from 1
pick_sstf(q, count, cur) ==
  sstf_loop(q, count, cur, 1, 0, abs(q[0].cyl - cur))

\* the loop of pick_cscan from index i2 on; st holds up_idx, up_delta,
\* min_idx, min_c
RECURSIVE cscan_loop(_, _, _, _, _)
cscan_loop(q, count, cur, i2, st) ==
  IF i2 >= count THEN st
  ELSE LET c == q[i2].cyl
           st1 == IF c < st.min_c
                    THEN [st EXCEPT !.min_c = c, !.min_idx = i2]
                    ELSE st
           st2 == IF c >= cur /\ (st1.up_idx = -1 \/ c - cur < st1.up_delta)
                    THEN [st1 EXCEPT !.up_idx = i2, !.up_delta = c - cur]
                    ELSE st1
       IN cscan_loop(q, count, cur, i2 + 1, st2)

\* faulty pick_cscan: without a request at or above the arm, slot 0
pick_cscan_nowrap(q, count, cur) ==
  LET st == cscan_loop(q, count, cur, 0,
                       [up_idx |-> -1, up_delta |-> 0,
                        min_idx |-> 0, min_c |-> q[0].cyl])
  IN IF st.up_idx # -1 THEN st.up_idx ELSE 0

\* pick_cscan: the nearest request at or above the arm, else the lowest
pick_cscan(q, count, cur) ==
  LET st == cscan_loop(q, count, cur, 0,
                       [up_idx |-> -1, up_delta |-> 0,
                        min_idx |-> 0, min_c |-> q[0].cyl])
  IN IF st.up_idx # -1 THEN st.up_idx ELSE st.min_idx

\* pick_index
pick_index(a, q, n, cur) ==
  CASE a = "FIFO" -> pick_fifo(q, n, cur)
    [] a = "SSTF" -> pick_sstf(q, n, cur)
    [] a = "CSCAN" -> pick_cscan(q, n, cur)
    [] OTHER -> 0

\* faulty fill condition: the queue size is not looked at
HasRoomAlways(count, size) == TRUE

\* "qcount < qsize" of the initial fill
HasRoom(count, size) == count < size

\* "for (i < qcount) queue[i].wait += step"
AddWait(q, count, step) ==
  [j \in DOMAIN q |-> IF j < count THEN [q[j] EXCEPT !.wait = @ + step]
                      ELSE q[j]]

\* faulty shift: the completed request stays, the last one is dropped
ShiftNone(q, idx, count) == q

\* "for (i = idx + 1; i < qcount; ++i) queue[i - 1] = queue[i]"
Shift(q, idx, count) ==
  [j \in DOMAIN q |-> IF j >= idx /\ j < count - 1 THEN q[j + 1] ELSE q[j]]

\* a slot as malloc leaves it: never read before it is written
FreshSlot == [cyl |-> -1, wait |-> 0, id |-> 0]

\* the request fscanf reads next, with its arrival number
NextRequest == [cyl |-> reqs[nin + 1], wait |-> 0, id |-> nin + 1]

\* the state after the arguments are parsed: algorithm, queue size > 0 and
\* the content of the input file
InitDisk ==
  /\ alg \in Algs
  /\ qsize \in 1..MaxQ
  /\ reqs \in Streams
  /\ nin = 0
  /\ queue = <<>>
  /\ qcount = 0
  /\ current = 0
  /\ processed = 0
  /\ total = 0
  /\ dpc = "start"
  /\ served = <<>>
  /\ wslot = -1
  /\ mg = <<>>
  /\ lru = <<>> /\ hits = <<>> /\ refs = <<>> /\ recent = <<>> /\ nread = 0
  /\ SearchIdle

\* fopen and malloc: both work, or one fails and main returns 1
DiskSetup ==
  /\ dpc = "start"
  /\ \/ /\ queue' = [j \in 0..(qsize - 1) |-> FreshSlot]
        /\ dpc' = "fill"
     \/ /\ dpc' = "failed"
        /\ UNCHANGED queue
  /\ UNCHANGED <<alg, qsize, reqs, nin, qcount, current, processed, total,
                 served, wslot>>
  /\ UNCHANGED <<search, mg, lru, hits, refs, recent, nread>>

\* one pass of the initial fill, or its end
FillStep ==
  /\ dpc = "fill"
  /\ IF HasRoom(qcount, qsize) /\ nin < Len(reqs)
       THEN /\ queue' = [queue EXCEPT ![qcount] = NextRequest]
            /\ wslot' = qcount
            /\ qcount' = qcount + 1
            /\ nin' = nin + 1
            /\ UNCHANGED dpc
       ELSE /\ dpc' = "serve"
            /\ UNCHANGED <<queue, wslot, qcount, nin>>
  /\ UNCHANGED <<alg, qsize, reqs, current, processed, total, served>>
  /\ UNCHANGED <<search, mg, lru, hits, refs, recent, nread>>

\* one pass of the service loop: pick, move the arm, add the wait, shift,
\* count, and admit the next request of the file if there is one
ServeStep ==
  /\ dpc = "serve"
  /\ qcount > 0
  /\ LET idx == pick_index(alg, queue, qcount, current)
         target == queue[idx].cyl
         step == seek_time_ms(current, target)
         waited == AddWait(queue, qcount, step)
         done == waited[idx].wait
         shifted == Shift(waited, idx, qcount)
     IN /\ total' = total + done
        /\ processed' = processed + 1
        /\ current' = target
        /\ served' = Append(served, queue[idx].id)
        /\ IF nin < Len(reqs)
             THEN /\ queue' = [shifted EXCEPT ![qcount - 1] = NextRequest]
                  /\ wslot' = qcount - 1
                  /\ qcount' = qcount
                  /\ nin' = nin + 1
             ELSE /\ queue' = shifted
                  /\ qcount' = qcount - 1
                  /\ UNCHANGED <<wslot, nin>>
  /\ UNCHANGED <<alg, qsize, reqs, dpc>>
  /\ UNCHANGED <<search, mg, lru, hits, refs, recent, nread>>

\* the queue is empty: fclose, the three lines of output (processed and
\* total / processed among them), free, return 0
Finish ==
  /\ dpc = "serve"
  /\ qcount <= 0
  /\ dpc' = "done"
  /\ UNCHANGED <<alg, qsize, reqs, nin, queue, qcount, current, processed,
                 total, served, wslot>>
  /\ UNCHANGED <<search, mg, lru, hits, refs, recent, nread>>

NextDisk == DiskSetup \/ FillStep \/ ServeStep \/ Finish

SpecDisk == InitDisk /\ [][NextDisk]_vars

\* the inputs of InitDisk whose cylinders are the lowest two or the highest
InitDiskFair ==
  /\ InitDisk
  /\ \A n \in 1..Len(reqs) : reqs[n] \in {0, 1, MaxCyl}

\* prog4.c is one process that runs until main returns
SpecDiskFair == InitDiskFair /\ [][NextDisk]_vars /\ WF_vars(NextDisk)

\* ---------------------------------------------------------------------
\* definitions used by the properties
\* ---------------------------------------------------------------------

Min(a, b) == IF a < b THEN a ELSE b

\* score(p) of the specification: the number of query indices whose
\* aligned subject symbol exists and is equal
Score(p) ==
  Cardinality({j \in 0..(subseq_len - 1) :
                 p + j < seq_len /\ seq[p + j + 1] = subseq[j + 1]})

Positions == 0..(seq_len - 1)

\* the highest score over all positions and the lowest position that has it
MaxScore == CHOOSE m \in {Score(p) : p \in Positions} :
              \A p \in Positions : Score(p) <= m
BestPosition == CHOOSE p \in Positions :
                  /\ Score(p) = MaxScore
                  /\ \A r \in Positions : Score(r) = MaxScore => p <= r

\* assignment(i, W, L): the residue class of worker w inside [0, L)
Assigned(w) == {p \in Positions : p % num_procs = w}

\* the workers inside the critical section
InCS == {w \in Workers : wk[w].pc \in {"cs", "sem_post"}}

\* what the run with one worker prints for the same sequences
RunW1 == ScanFrom(variant, seq, subseq, FirstPos(0), 1,
                  [best_pos |-> -1, best_cnt |-> -1])

ExitedWith(w, code) ==
  Terminated(w) /\ wk[w].wstatus = [exited |-> TRUE, code |-> code]

SemFailed(w) == wk[w].acq = "fail" \/ wk[w].rel = "fail"

\* ---------------------------------------------------------------------
\* properties
\* ---------------------------------------------------------------------

\* C1: at most one worker is inside the critical section at any time (the
\* semaphore value plus the number of workers that took it and did not give
\* it back is never more than 1), and after the parent's initialisation
\* the shared result is accessed and changed only by a worker that holds
\* the semaphore and is inside the critical section.
C1_MutualExclusion ==
  /\ [](/\ Cardinality(InCS) <= 1
        /\ sem >= 0
        /\ sem + Cardinality({w \in Workers : wk[w].holds}) <= 1
        /\ \A w \in InCS : wk[w].holds /\ sem = 0)
  /\ [][/\ \A w \in Workers :
             wk'[w].touches # wk[w].touches =>
               /\ wk[w].pc = "cs" /\ wk[w].holds
               /\ InCS = {w}
        /\ shm' # shm =>
             \/ opc = "init_results"
             \/ \E w \in Workers : wk'[w].touches # wk[w].touches]_vars

\* C1 witness: one worker has written its best inside the critical section
\* while another worker is blocked in sem_wait.
C1_Witness ==
  \E w, v \in Workers :
    /\ w # v
    /\ wk[w].pc = "sem_post"
    /\ wk[v].pc = "sem_wait"
    /\ sem = 0
    /\ shm.best_count = wk[w].best_cnt

\* C2: when the parent reaches DONE the printed result is the highest score
\* over all positions of the subject together with the lowest position that
\* has this score.
C2_GlobalBest ==
  opc = "done" =>
    out = <<num_procs, BestPosition, MaxScore>>

\* C2 witness: a finished run with two workers in which the best score is
\* reached at positions of both workers.
C2_Witness ==
  /\ opc = "done"
  /\ num_procs = 2
  /\ \E p, r \in Positions :
       /\ p % 2 = 0 /\ r % 2 = 1
       /\ Score(p) = MaxScore /\ Score(r) = MaxScore
       /\ MaxScore > 0

\* C3: for the same sequences every worker count, also one above the
\* subject length, ends with a printed result, and this result is the one
\* the run with a single worker prints.
C3_WInvariance ==
  opc \in {"done", "rejected"} =>
    /\ out # <<>>
    /\ out[2] = RunW1.best_pos
    /\ out[3] = RunW1.best_cnt

\* C4: at every moment worker w has scanned exactly the positions of its
\* residue class w mod num_procs below its loop variable; the scanned sets
\* of two workers are disjoint, and once every worker has left its loop
\* the scanned sets together are exactly 0..seq_len-1.
C4_Partition ==
  /\ \A w \in Workers :
       wk[w].scanned = {p \in Assigned(w) : p < wk[w].pos}
  /\ \A w, v \in Workers :
       w # v => wk[w].scanned \cap wk[v].scanned = {}
  /\ (\A w \in Workers : wk[w].pc # "unborn" /\ wk[w].pos >= seq_len) =>
       UNION {wk[w].scanned : w \in Workers} = Positions

\* C4 witness: two workers have finished scanning a subject of length 3,
\* worker 0 the positions 0 and 2, worker 1 the position 1.
C4_Witness ==
  /\ num_procs = 2
  /\ seq_len = 3
  /\ wk[0].scanned = {0, 2}
  /\ wk[1].scanned = {1}
  /\ wk[0].pos >= seq_len
  /\ wk[1].pos >= seq_len

\* C5: the match count computed for a scanned position p is the number of
\* query indices j with p + j inside the subject and equal symbols; it is
\* at least 0 and at most min(len(query), len(subject) - p).
C5_ScoreCorrect ==
  \A p \in Positions :
    matchesAt[p] # -1 =>
      /\ matchesAt[p] = Score(p)
      /\ 0 <= matchesAt[p]
      /\ matchesAt[p] <= Min(subseq_len, seq_len - p)

\* C5 witness: a scanned position whose window runs over the end of the
\* subject and which has both a matching and a non-matching symbol before
\* the end.
C5_Witness ==
  \E p \in Positions :
    /\ matchesAt[p] # -1
    /\ p + subseq_len > seq_len
    /\ matchesAt[p] >= 1
    /\ \E q \in Positions : matchesAt[q] # -1 /\ matchesAt[q] = 0

\* C6: while no call of the parent itself has failed, the parent does not
\* reach DONE or FAILED and does not run its cleanup as long as a forked
\* worker is still running, also after another worker has exited with a
\* failure status.
C6_AwaitsAll ==
  (faults \subseteq {"worker"} /\ (opc \in {"done", "failed"} \/ torn)) =>
    \A w \in Workers : ~Live(w)

\* C7: a result is printed only when num_procs workers were forked, all of
\* them exited with status 0 and no call of the parent failed; when the
\* parent has ended and a worker failed or was ended by a signal, or a
\* fork or wait failed, the parent ended in FAILED with status 1 and
\* printed nothing; no more than num_procs workers are ever forked.
C7_NoResultOnFailure ==
  /\ out # <<>> =>
       /\ started = num_procs
       /\ \A w \in Workers : ExitedWith(w, 0) /\ wk[w].reaped
       /\ faults = {}
       /\ exit_status = 0
  /\ (exit_status # -1 /\
      (faults # {} \/ \E w \in Workers : Terminated(w) /\ ~ExitedWith(w, 0)))
       => opc = "failed" /\ exit_status = 1 /\ out = <<>>
  /\ started <= num_procs

\* C7 witness: the parent has ended in FAILED after it reaped a worker
\* that was ended by a signal while every other worker exited with 0.
C7_Witness ==
  /\ opc = "failed"
  /\ faults = {"worker"}
  /\ out = <<>>
  /\ \E w \in Workers :
       /\ Terminated(w) /\ ~wk[w].wstatus.exited /\ wk[w].reaped
       /\ \A v \in Workers \ {w} : ExitedWith(v, 0)

\* C8: a worker whose sem_wait or sem_post failed has terminated with a
\* non-zero exit status; after a failed sem_wait it has not accessed the
\* shared result; when the parent reaps it in the wait loop the run is
\* FAILED, and a run that reaches DONE has no such worker.
C8_SemFailureReported ==
  \A w \in Workers :
    /\ SemFailed(w) =>
         /\ Terminated(w)
         /\ wk[w].wstatus.exited
         /\ wk[w].wstatus.code # 0
         /\ opc # "done"
         /\ (wk[w].reaped /\ "fork" \notin faults) =>
              opc = "failed" /\ "worker" \in faults
    /\ wk[w].acq = "fail" => wk[w].touches = 0 /\ wk[w].merges = 0

\* C8 witness: the parent has reaped a worker whose sem_post failed and
\* another whose sem_wait failed is terminated.
C8_Witness ==
  \E w, v \in Workers :
    /\ wk[w].rel = "fail" /\ wk[w].reaped
    /\ wk[v].acq = "fail" /\ Terminated(v)
    /\ opc = "failed"

\* C9: no worker terminates while it still holds the semaphore.
C9_NoExitHoldingLock ==
  \A w \in Workers : Terminated(w) => ~wk[w].holds

\* C10: a worker calls sem_wait and merges at most once, and only after it
\* has scanned its whole non-empty assignment; a worker with a non-empty
\* assignment that went through its scan has called sem_wait exactly once
\* when it terminates, and has merged exactly once when it exits with 0; a
\* worker with an empty assignment keeps (-1, -1), never calls sem_wait,
\* never accesses the shared result and exits with 0.
C10_OneMerge ==
  \A w \in Workers :
    /\ wk[w].waits <= 1 /\ wk[w].merges <= 1
    /\ (wk[w].waits >= 1 \/ wk[w].pc \in {"sem_wait", "cs", "sem_post"}) =>
         /\ Assigned(w) # {}
         /\ wk[w].scanned = Assigned(w)
    /\ (Terminated(w) /\ Assigned(w) # {} /\ ~wk[w].openfail) =>
         /\ wk[w].waits = 1
         /\ ExitedWith(w, 0) => wk[w].merges = 1
    /\ (Assigned(w) = {}) =>
         /\ wk[w].best_pos = -1 /\ wk[w].best_cnt = -1
         /\ wk[w].waits = 0 /\ wk[w].touches = 0 /\ ~wk[w].holds
         /\ wk[w].pc \notin {"sem_wait", "cs", "sem_post"}
         /\ (Terminated(w) /\ ~wk[w].openfail) => ExitedWith(w, 0)

\* C10 witness: with more workers than positions the worker without a
\* position has exited with 0 without a sem_wait, and the other worker
\* has exited with 0 after one merge.
C10_Witness ==
  /\ num_procs = 2
  /\ seq_len = 1
  /\ ExitedWith(1, 0) /\ wk[1].waits = 0 /\ ~wk[1].openfail
  /\ ExitedWith(0, 0) /\ wk[0].merges = 1 /\ wk[0].waits = 1

\* C11: before the first worker is forked the shared result is the
\* sentinel (-1, -1) and the semaphore exists with value 1; both were made
\* before any worker exists, and while workers exist the shared result is
\* the sentinel or a scanned position with its score, never the zero-filled
\* content the region had before initialisation.
C11_InitBeforeWorkers ==
  /\ [](/\ (opc = "fork" /\ started = 0) =>
             /\ shm = [best_position |-> -1, best_count |-> -1]
             /\ sem = 1
        /\ \A w \in Workers :
             wk[w].pc # "unborn" =>
               /\ {"shm", "sem"} \subseteq res.made
               /\ \/ shm = [best_position |-> -1, best_count |-> -1]
                  \/ /\ shm.best_position \in Positions
                     /\ matchesAt[shm.best_position] = shm.best_count)
  /\ [][(started = 0 /\ started' = 1) =>
          /\ shm = [best_position |-> -1, best_count |-> -1]
          /\ sem = 1
          /\ {"shm", "sem"} \subseteq res.made]_vars

\* C11 witness: the first of two workers has just been forked and has
\* done nothing yet; the shared result is the sentinel, the semaphore is 1.
C11_Witness ==
  /\ num_procs = 2
  /\ started = 1
  /\ wk[0].pc \in {"child_open", "scan"}
  /\ wk[0].scanned = {}
  /\ wk[1].pc = "unborn"
  /\ shm = [best_position |-> -1, best_count |-> -1]
  /\ sem = 1

\* C13: in prog2.c a worker count above the subject length is accepted:
\* the run is never rejected, the wait loop is entered only with num_procs
\* forked workers, a worker whose id is not below the subject length scans
\* nothing, never calls sem_wait and never accesses the shared result, a
\* run that ends without a failed call ends in DONE, and DONE prints the
\* best score over all positions with the lowest position that has it.
C13_MoreWorkersThanPositions ==
  (variant = "prog2" /\ num_procs > seq_len /\ seq_len >= 1
     /\ subseq_len >= 1) =>
    /\ opc # "rejected"
    /\ opc \in {"wait", "output", "done"} => started = num_procs
    /\ \A w \in Workers :
         w >= seq_len =>
           /\ wk[w].scanned = {} /\ wk[w].waits = 0
           /\ wk[w].merges = 0 /\ wk[w].touches = 0
           /\ wk[w].best_cnt = -1
    /\ (exit_status # -1 /\ faults = {}) => opc = "done"
    /\ opc = "done" =>
         /\ out = <<num_procs, BestPosition, MaxScore>>
         /\ \A w \in Workers : ExitedWith(w, 0)

\* C13 witness: prog2.c has reached DONE with two workers on a subject of
\* length 1 and printed position 0.
C13_Witness ==
  /\ variant = "prog2"
  /\ num_procs = 2
  /\ seq_len = 1
  /\ opc = "done"
  /\ out = <<2, 0, MaxScore>>
  /\ wk[1].scanned = {}

\* C15: the local best of a worker is the highest score among the
\* positions it has scanned so far together with the lowest scanned
\* position that has this score, (-1, -1) when it has scanned nothing; when
\* the worker has left its loop these are all positions of its assignment.
C15_LocalBest ==
  \A w \in Workers :
    /\ wk[w].scanned = {} => wk[w].best_pos = -1 /\ wk[w].best_cnt = -1
    /\ wk[w].scanned # {} =>
         /\ wk[w].best_pos \in wk[w].scanned
         /\ wk[w].best_cnt = Score(wk[w].best_pos)
         /\ \A p \in wk[w].scanned :
              \/ Score(p) < wk[w].best_cnt
              \/ (Score(p) = wk[w].best_cnt /\ wk[w].best_pos <= p)
    /\ (wk[w].pc \in {"sem_wait", "cs", "sem_post"}) =>
         wk[w].scanned = Assigned(w)

\* C15 witness: a worker has scanned the positions 0 and 2, both have the
\* same score above 0, and its local best is position 0.
C15_Witness ==
  \E w \in Workers :
    /\ wk[w].scanned = {0, 2}
    /\ Score(0) = Score(2)
    /\ Score(0) > 0
    /\ wk[w].best_pos = 0
    /\ wk[w].pc = "sem_wait"

\* C16: a run that reaches DONE prints a position inside the subject and
\* a score that is at least 0, never the sentinel.
C16_NoSentinelOutput ==
  opc = "done" =>
    /\ seq_len >= 1
    /\ out[2] \in Positions
    /\ out[3] >= 0
    /\ out[2] # -1 /\ out[3] # -1

\* C16 witness: a finished run in which no position has any match; the
\* printed result is position 0 with score 0.
C16_Witness ==
  /\ opc = "done"
  /\ num_procs = 2
  /\ seq_len >= 2
  /\ out = <<2, 0, 0>>

\* C18: in prog2a.c a run with non-empty inputs and num_procs > seq_len
\* never gets past the guard: it ends rejected with exit status 1, the
\* shared region and the semaphore are never made, no worker is forked and
\* nothing is printed.
C18_Prog2aRejects ==
  (variant = "prog2a" /\ num_procs > seq_len /\ seq_len >= 1
     /\ subseq_len >= 1) =>
    /\ opc \in {"loaded", "start", "rejected"}
    /\ (opc = "rejected") = (exit_status = 1)
    /\ exit_status \in {-1, 1}
    /\ res.made = {}
    /\ sem = 0
    /\ started = 0
    /\ \A w \in Workers : wk[w].pc = "unborn"
    /\ out = <<>>

\* C18 witness: prog2a.c has rejected two workers for a subject of length 1.
C18_Witness ==
  /\ variant = "prog2a"
  /\ num_procs = 2
  /\ seq_len = 1
  /\ opc = "rejected"
  /\ exit_status = 1

\* every resource of the parent is released
Released(r) ==
  /\ r.seq_buf = "freed" /\ r.subseq_buf = "freed"
  /\ r.shm_fd = -1 /\ ~r.shm_obj /\ r.g_results # "mapped"
  /\ r.g_sem # "open" /\ ~r.sem_obj /\ ~r.sem_live

\* C19: no resource of the parent is released twice or torn down without
\* having been acquired, and when the parent has ended every resource it
\* acquired is released.
C19_ResourceLifecycle ==
  /\ res.errors = {}
  /\ exit_status # -1 => Released(res)

\* in the scenario, every position that has been scored has the score the
\* pair lists for it, and no odd position reaches 4
ScenarioScores(listed) ==
  /\ \A pair \in listed :
       matchesAt[pair[1]] \in {-1, pair[2]}
  /\ \A p \in {1, 3, 5, 7} : matchesAt[p] < 4

\* in the scenario, worker 0 scans 0, 2, 4, 6 and worker 1 scans 1, 3, 5, 7
ScenarioScans ==
  /\ wk[0].scanned \subseteq {0, 2, 4, 6}
  /\ wk[1].scanned \subseteq {1, 3, 5, 7}
  /\ wk[0].pos >= seq_len => wk[0].scanned = {0, 2, 4, 6}
  /\ wk[1].pos >= seq_len => wk[1].scanned = {1, 3, 5, 7}

\* C14 as stated: subject ACGTACGT, query ACGT, two workers: worker 0 scans
\* 0, 2, 4, 6 and worker 1 scans 1, 3, 5, 7; the scores are 4 at 0, 0 at 2,
\* 4 at 4 and 1 at 6, and every odd position scores less than 4.
C14_ScenarioAsStated ==
  /\ ScenarioScans
  /\ ScenarioScores({<<0, 4>>, <<2, 0>>, <<4, 4>>, <<6, 1>>})

\* C14 amended: the same, with the score at position 6 being 0 (the window
\* GT against AC matches nowhere).
C14_Scenario ==
  /\ ScenarioScans
  /\ ScenarioScores({<<0, 4>>, <<2, 0>>, <<4, 4>>, <<6, 0>>})

\* C14 witness: both workers have scanned their whole class and every
\* position of the subject has been scored.
C14_Witness ==
  /\ seq_len = 8 /\ num_procs = 2
  /\ wk[0].scanned = {0, 2, 4, 6}
  /\ wk[1].scanned = {1, 3, 5, 7}
  /\ \A p \in 0..7 : matchesAt[p] # -1
  /\ matchesAt[6] = 0

\* the candidate named c as a value of the shared result
AsResult(c) ==
  LET cand == IF c = "a" THEN mg.a ELSE mg.b IN
  [best_position |-> cand.best_pos, best_count |-> cand.best_cnt]

\* x is at least as good as y: higher count, or the same count at a
\* position that is not higher
AtLeastAsGood(x, y) ==
  \/ x.best_count > y.best_count
  \/ (x.best_count = y.best_count /\ x.best_position <= y.best_position)

\* the best of a set of results
BestOf(S) == CHOOSE x \in S : \A y \in S : AtLeastAsGood(x, y)

\* the candidates named in order merged one after the other into s
RECURSIVE MergeAll(_, _)
MergeAll(s, order) ==
  IF order = <<>> THEN s
  ELSE LET r == AsResult(Head(order)) IN
       MergeAll(Merge(s, r.best_position, r.best_count), Tail(order))

Reversed(order) == [j \in 1..Len(order) |-> order[Len(order) + 1 - j]]

\* the names of order without repetition, the first occurrence kept
RECURSIVE Once(_)
Once(order) ==
  IF order = <<>> THEN <<>>
  ELSE LET init == SubSeq(order, 1, Len(order) - 1)
           last == order[Len(order)]
       IN IF \E j \in 1..Len(init) : init[j] = last
            THEN Once(init)
            ELSE Append(Once(init), last)

\* C12: the merge is commutative, associative and idempotent over the
\* candidates: whatever the start value and the order, the shared result is
\* the best of the start value and the candidates merged so far; merging in
\* the opposite order gives the same result, and so does merging every
\* candidate only once.
C12_MergeOrderFree ==
  mg # <<>> =>
    /\ mg.cur = BestOf({mg.s0} \cup
                        {AsResult(mg.applied[j]) : j \in 1..Len(mg.applied)})
    /\ mg.cur = MergeAll(mg.s0, mg.applied)
    /\ mg.cur = MergeAll(mg.s0, Reversed(mg.applied))
    /\ mg.cur = MergeAll(mg.s0, Once(mg.applied))

\* C12 witness: two candidates with the same count at different positions
\* were merged into the initial result, the higher position first, then the
\* lower position twice; the result is the lower position.
C12_Witness ==
  /\ mg # <<>>
  /\ mg.s0 = InitialResults
  /\ mg.a.best_cnt = mg.b.best_cnt
  /\ mg.a.best_pos < mg.b.best_pos
  /\ mg.applied = <<"b", "a", "a">>
  /\ mg.cur = AsResult("a")


\* the pages an LRU cache of process p must hold: the last min(cap, n) of
\* the n distinct pages referenced, least recently referenced first
MostRecent(p) ==
  LET n == Len(recent[p])
      m == IF lru[p].cap < n THEN lru[p].cap ELSE n
  IN SubSeq(recent[p], n - m + 1, n)

\* the cache of p holds exactly MostRecent(p), index 0 the least recently
\* used; with no frames nothing is stored and nothing ever hits
HoldsMostRecent(p) ==
  /\ lru[p].size = Len(MostRecent(p))
  /\ \A j \in 0..(lru[p].size - 1) : lru[p].q[j] = MostRecent(p)[j + 1]
  /\ lru[p].cap = 0 => lru[p].size = 0 /\ hits[p] = 0

\* a reference of process p: it counts as a hit iff the page was among the
\* cap most recently referenced distinct pages of p, and it changes nothing
\* of any other process
LocalHit(p) ==
  refs'[p] # refs[p] =>
    LET page == recent'[p][Len(recent'[p])] IN
    /\ refs'[p] = refs[p] + 1
    /\ hits'[p] = hits[p] +
         (IF \E j \in 1..Len(MostRecent(p)) : MostRecent(p)[j] = page
            THEN 1 ELSE 0)
    /\ \A p2 \in (0..(PROCS - 1)) \ {p} :
         /\ lru'[p2] = lru[p2]
         /\ hits'[p2] = hits[p2]
         /\ refs'[p2] = refs[p2]

\* C20: prog3.c is a true local LRU: per process, an access is a hit iff
\* the page is among the cap most recently referenced distinct pages of
\* that process, after every access the cache holds exactly the min(cap,
\* distinct pages seen) most recently referenced pages from least (index 0)
\* to most recently used, other processes are not affected, and with
\* cap = 0 every access misses and nothing is stored.
C20_TrueLocalLru ==
  /\ [](lru # <<>> => \A p \in 0..(PROCS - 1) : HoldsMostRecent(p))
  /\ [][lru # <<>> => \A p \in 0..(PROCS - 1) : LocalHit(p)]_vars

\* C20 witness: a process with at least two frames has hit a page, has then
\* filled its cache and evicted the page that was least recently used, which
\* is not the page that entered first.
C20_Witness ==
  /\ lru # <<>>
  /\ \E p \in 0..(PROCS - 1) :
       /\ lru[p].cap >= 2
       /\ lru[p].size = lru[p].cap
       /\ Len(recent[p]) > lru[p].cap
       /\ hits[p] >= 1
       /\ refs[p] = MaxRefs
       /\ lru[p].q[0] < recent[p][1]


\* the parent has ended (DONE or FAILED)
Ended == exit_status # -1

\* the arguments were turned down before anything was created
TurnedDown == opc \in {"empty", "rejected"}

\* C17: under fair scheduling every run eventually ends in DONE or FAILED,
\* no worker staying blocked on the semaphore; and a run that got past the
\* checks of its arguments and in which no call failed ends in DONE.
C17_Liveness ==
  /\ <>Ended
  /\ [](Ended /\ faults = {} /\ ~TurnedDown => opc = "done")

\* the pages held by a cache
Cached(l) == {l.q[j] : j \in 0..(l.size - 1)}

\* a cache is within its frames and holds no page twice; hits are counted
\* among the references
CacheSound(p) ==
  /\ 0 <= lru[p].size /\ lru[p].size <= lru[p].cap
  /\ \A j1, j2 \in 0..(lru[p].size - 1) :
       lru[p].q[j1] = lru[p].q[j2] => j1 = j2
  /\ hits[p] <= refs[p]

\* one access: size does not decrease, and a hit leaves the size and the
\* set of cached pages as they were
CacheStep(p) ==
  /\ lru'[p].size >= lru[p].size
  /\ hits'[p] # hits[p] =>
       /\ lru'[p].size = lru[p].size
       /\ Cached(lru'[p]) = Cached(lru[p])

\* C21: after any sequence of lru_access calls 0 <= size <= cap, the
\* entries q[0..size-1] are pairwise distinct, size never decreases, a hit
\* leaves size and the set of cached pages unchanged, and per process hits
\* never exceeds refs.
C21_CacheInvariants ==
  /\ [](lru # <<>> => \A p \in 0..(PROCS - 1) : CacheSound(p))
  /\ [][lru # <<>> => \A p \in 0..(PROCS - 1) : CacheStep(p)]_vars

\* C21 witness: a cache of at least two frames is full, has served a hit
\* and has had more misses than it has frames, so a page was evicted.
C21_Witness ==
  /\ lru # <<>>
  /\ \E p \in 0..(PROCS - 1) :
       /\ lru[p].cap >= 2
       /\ lru[p].size = lru[p].cap
       /\ hits[p] >= 1
       /\ refs[p] > hits[p] + lru[p].cap
       /\ Cardinality(Cached(lru[p])) = lru[p].cap


\* C22: the queue of prog4.c has a fixed size: always 0 <= qcount <= qsize,
\* a request is written only into a slot with index < qsize, and in the
\* service loop at most one request is admitted per completed request.
C22_FixedQueue ==
  /\ [](dpc # "idle" =>
          /\ 0 <= qcount /\ qcount <= qsize
          /\ wslot < qsize
          /\ (wslot # -1 => wslot >= 0))
  /\ [][dpc = "serve" =>
          /\ nin' - nin <= processed' - processed
          /\ nin' - nin \in {0, 1}]_vars

\* C22 witness: with the queue full, a request was completed and the next
\* request of the file was admitted into the last slot, and the queue is
\* full again.
C22_Witness ==
  /\ dpc = "serve"
  /\ processed >= 1
  /\ qcount = qsize
  /\ wslot = qsize - 1
  /\ nin = qsize + processed


\* the arrival numbers of the requests in the queue
Queued == {queue[j].id : j \in 0..(qcount - 1)}

\* the arrival numbers of the requests completed
Served == {served[j] : j \in 1..Len(served)}

\* every request read is either in the queue or completed, never both,
\* and neither holds a request twice or one that was not read
Conserved ==
  /\ Queued \cup Served = 1..nin
  /\ Queued \cap Served = {}
  /\ Cardinality(Queued) = qcount
  /\ Cardinality(Served) = Len(served)
  /\ processed = Len(served)
  /\ \A j \in 0..(qcount - 1) : queue[j].cyl = reqs[queue[j].id]

\* C23: for FIFO, SSTF and C-SCAN, every queue size >= 1 and every finite
\* input, the service loop ends with an empty queue, every request read was
\* served exactly once (none lost, duplicated or left waiting), and
\* processed is the number of requests read.
C23_ServesAllOnce ==
  /\ [](dpc \in {"fill", "serve", "done"} => Conserved)
  /\ [](dpc = "done" =>
          /\ qcount = 0
          /\ nin = Len(reqs)
          /\ Served = 1..Len(reqs)
          /\ processed = nin)
  /\ (dpc = "fill") ~> (dpc = "done")

\* C23 witness: an input longer than the queue was served completely and
\* not in the order of arrival.
C23_Witness ==
  /\ dpc = "done"
  /\ Len(reqs) > qsize
  /\ processed = Len(reqs)
  /\ served[1] # 1
  /\ qcount = 0


\* the slots in use
Slots == 0..(qcount - 1)

\* idx is the lowest slot holding the cylinder it holds
LowestSlotOfItsCylinder(idx) ==
  \A j \in Slots : queue[j].cyl = queue[idx].cyl => idx <= j

\* C24: for a non-empty queue and the arm at current, pick_cscan returns
\* the slot of a request with the smallest cylinder >= current if there is
\* one, otherwise the slot of a request with the smallest cylinder of the
\* queue; among equal cylinders it returns the lowest slot.
C24_CscanPick ==
  dpc = "serve" /\ qcount > 0 =>
    LET idx == pick_cscan(queue, qcount, current)
        up == {j \in Slots : queue[j].cyl >= current}
    IN /\ idx \in Slots
       /\ LowestSlotOfItsCylinder(idx)
       /\ IF up # {}
            THEN /\ idx \in up
                 /\ \A j \in up : queue[idx].cyl <= queue[j].cyl
            ELSE \A j \in Slots : queue[idx].cyl <= queue[j].cyl

\* C24 witness: under C-SCAN the arm is above every queued request, and the
\* lowest cylinder is queued twice, so the pick wraps and has a tie.
C24_Witness ==
  /\ alg = "CSCAN"
  /\ dpc = "serve"
  /\ qcount >= 2
  /\ \A j \in Slots : queue[j].cyl < current
  /\ queue[0].cyl = queue[1].cyl
  /\ pick_cscan(queue, qcount, current) = 0


\* the distance of the request in slot j from the arm
Distance(j) == abs(queue[j].cyl - current)

\* the queue holds its requests in the order of their arrival
ArrivalOrder ==
  \A j1, j2 \in Slots : j1 < j2 => queue[j1].id < queue[j2].id

\* C25: for a non-empty queue and the arm at current, pick_sstf returns the
\* slot of a request whose distance |cyl - current| is the smallest of the
\* queue, and among the requests at that distance the lowest slot, which
\* holds the one that arrived first.
C25_SstfPick ==
  dpc = "serve" /\ qcount > 0 =>
    LET idx == pick_sstf(queue, qcount, current) IN
    /\ idx \in Slots
    /\ \A j \in Slots : Distance(idx) <= Distance(j)
    /\ \A j \in Slots : Distance(j) = Distance(idx) =>
         idx <= j /\ queue[idx].id <= queue[j].id

\* C25 witness: under SSTF, after the arm has moved, the requests in slots
\* 0 and 1 are on different cylinders at the same smallest distance, and
\* slot 0 is picked.
C25_Witness ==
  /\ alg = "SSTF"
  /\ dpc = "serve"
  /\ processed >= 1
  /\ qcount >= 2
  /\ queue[0].cyl # queue[1].cyl
  /\ Distance(0) = Distance(1)
  /\ \A j \in Slots : Distance(0) <= Distance(j)
  /\ pick_sstf(queue, qcount, current) = 0


\* C26: under FIFO the requests are served in the order they were read:
\* the queue always holds the pending requests in arrival order, the k-th
\* request completed is the k-th request read, and the queue holds the
\* requests read after the completed ones, for every queue size.
C26_FifoOrder ==
  alg = "FIFO" /\ dpc \in {"fill", "serve", "done"} =>
    /\ ArrivalOrder
    /\ \A n \in 1..Len(served) : served[n] = n
    /\ \A j \in Slots : queue[j].id = processed + j + 1
    /\ \A j \in Slots : queue[j].cyl = reqs[processed + j + 1]
    /\ processed + qcount = nin

\* C26 witness: under FIFO an input longer than the queue, whose second
\* cylinder is nearer to the start than its first, was served completely.
C26_Witness ==
  /\ alg = "FIFO"
  /\ dpc = "done"
  /\ Len(reqs) > qsize
  /\ qsize >= 2
  /\ reqs[2] < reqs[1]
  /\ Len(served) = Len(reqs)
  /\ served[1] = 1 /\ served[2] = 2


====
